---- MODULE Spec2Model ----
(***************************************************************************)
(* AuctionSealFHE: the confidential batch-auction settlement engine.       *)
(* State machine of the contract (roles, pause, cooldowns, bid ledger,     *)
(* batch lifecycle, tournament, decryption request / callback) together    *)
(* with the part of the FHE library and decryption oracle it talks to.     *)
(***************************************************************************)
EXTENDS Integers, Sequences, FiniteSets, TLC

(* ------------------------------ bounds -------------------------------- *)
\* ledger length the model explores
MaxBids == 2
\* number of openBatch calls the model explores
MaxBatch == 2
\* number of decryption requests the oracle hands out
MaxRequests == 1
\* the same, for the specification of concurrent requests
ConcurrentRequests == 2
\* number of distinct initialized input ciphertext handles
NumHandles == 2
\* the same, for the specification of the tournament
TournamentBids == 3
TournamentHandles == 4
\* block.timestamp at deployment and its upper limit
StartTime == 60
MaxTime == 120
\* cooldown set by the constructor
DefaultCooldownSeconds == 60
\* stand-in for type(uint256).max in the checked additions
MaxUint256 == 1000

(* ----------------------------- addresses ------------------------------ *)
ZeroAddress == "0x0"
Deployer == "A"
Addr == {"A", "B", "C"}
\* the accounts that send transactions in the main specification
Senders == {"A", "B"}
AddressThis == "this"
\* the account that delivers the oracle's callbacks
Relayer == "relayer"
\* how far block.timestamp moves between two transactions
TickSteps == {60}
\* values handed to setCooldownSeconds
CooldownInputs == {0, DefaultCooldownSeconds, MaxUint256}
\* targets handed to transferOwnership
OwnerInputs == {ZeroAddress, "B"}

OK == "ok"
NoRid == 0 - 1

(* ------------------- FHE library: handles and values ------------------- *)
\* a handle is <<kind, id, operands>>; derived handles are determined by the
\* operation and its operand handles, as the FHE executor computes them
InputHandle(k) == <<"in", k, <<>>>>
UninitializedHandle == InputHandle(0)
InputHandles == {InputHandle(k) : k \in 1..NumHandles}
HandleInputs == InputHandles \cup {UninitializedHandle}

isInitialized(v) == v # UninitializedHandle

gt(a, b) == <<"gt", 0, <<a, b>>>>

ge(a, b) == <<"ge", 0, <<a, b>>>>

\* plaintexts behind the input handles (mock backend)
PlainTable == <<5, 15, 9, 15, 10, 20>>
PlainOf(k) == PlainTable[((k - 1) % Len(PlainTable)) + 1]
Cleartexts == {PlainOf(k) : k \in 1..NumHandles} \cup {0}

RECURSIVE Decrypt(_)
Decrypt(h) ==
    IF h[1] = "in" THEN (IF h[2] = 0 THEN 0 ELSE PlainOf(h[2]))
    ELSE IF h[1] = "ge"
         THEN (IF Decrypt(h[3][1]) >= Decrypt(h[3][2]) THEN 1 ELSE 0)
    ELSE IF h[1] = "gt"
         THEN (IF Decrypt(h[3][1]) > Decrypt(h[3][2]) THEN 1 ELSE 0)
         ELSE (IF Decrypt(h[3][3]) = 1 THEN Decrypt(h[3][1]) ELSE Decrypt(h[3][2]))

selectOperand(a, b, cond) == IF Decrypt(cond) = 1 THEN a ELSE b

select(a, b, cond) == <<"select", 0, <<a, b, cond>>>>

(* ------------------------------- hashes -------------------------------- *)
keccakAddress(a) == <<"keccak256", a>>

ZeroHash == <<"bytes32(0)", <<UninitializedHandle, keccakAddress(ZeroAddress)>>, AddressThis>>

_hashCiphertexts(cts) == <<"keccak256", cts, AddressThis>>

(* -------------------------------- state -------------------------------- *)
VARIABLES
    owner, isProvider, paused, cooldownSeconds,
    lastSubmissionTime, lastDecryptionRequestTime,
    bids, currentBatchId, batchOpen, decryptionContexts,
    counterRequest, requestedHandles,   \* decryption oracle
    now,                                \* block.timestamp
    settledLog,                         \* AuctionSettled events, in order
    rejected                            \* request ids with a rejected callback

govVars == <<owner, isProvider, paused, cooldownSeconds>>
timeVars == <<lastSubmissionTime, lastDecryptionRequestTime>>
batchVars == <<bids, currentBatchId, batchOpen>>
oracleVars == <<counterRequest, requestedHandles>>
vars == <<owner, isProvider, paused, cooldownSeconds,
          lastSubmissionTime, lastDecryptionRequestTime,
          bids, currentBatchId, batchOpen, decryptionContexts,
          counterRequest, requestedHandles, now, settledLog, rejected>>

RequestIds == 0..MaxRequests

Bid(bidder, encryptedBidAmount) ==
    [bidder |-> bidder, encryptedBidAmount |-> encryptedBidAmount]

DecryptionContext(batchId, stateHash, processed) ==
    [batchId |-> batchId, stateHash |-> stateHash, processed |-> processed]

NoCts == <<UninitializedHandle, keccakAddress(ZeroAddress)>>

Init ==
    /\ owner = Deployer
    /\ isProvider = [a \in Addr |-> a = Deployer]
    /\ paused = FALSE
    /\ cooldownSeconds = DefaultCooldownSeconds
    /\ lastSubmissionTime = [a \in Addr |-> 0]
    /\ lastDecryptionRequestTime = [a \in Addr |-> 0]
    /\ bids = <<>>
    /\ currentBatchId = 0
    /\ batchOpen = FALSE
    /\ decryptionContexts = [r \in RequestIds |-> DecryptionContext(0, ZeroHash, FALSE)]
    /\ counterRequest = 0
    /\ requestedHandles = [r \in RequestIds |-> NoCts]
    /\ now = StartTime
    /\ settledLog = <<>>
    /\ rejected = {}

(* ------------------------------ modifiers ------------------------------ *)
onlyOwnerOrProvider(sender) ==
    IF sender # owner /\ ~isProvider[sender] THEN "NotOwner" ELSE OK

onlyOwner(sender) == IF sender # owner THEN "NotOwner" ELSE OK

onlyProvider(sender) == IF ~isProvider[sender] THEN "NotProvider" ELSE OK

pauseIgnored == OK

whenNotPaused == IF paused THEN "PausedError" ELSE OK

checkSubmissionCooldown(sender) ==
    IF lastSubmissionTime[sender] + cooldownSeconds > MaxUint256 THEN "Panic"
    ELSE IF now < lastSubmissionTime[sender] + cooldownSeconds THEN "CooldownActive"
    ELSE OK

checkDecryptionCooldownSharedClock(sender) ==
    IF lastSubmissionTime[sender] + cooldownSeconds > MaxUint256 THEN "Panic"
    ELSE IF now < lastSubmissionTime[sender] + cooldownSeconds THEN "CooldownActive"
    ELSE OK

checkDecryptionCooldown(sender) ==
    IF lastDecryptionRequestTime[sender] + cooldownSeconds > MaxUint256 THEN "Panic"
    ELSE IF now < lastDecryptionRequestTime[sender] + cooldownSeconds THEN "CooldownActive"
    ELSE OK

\* the first failing check of a handler, in the order the code runs them
RECURSIVE FirstError(_)
FirstError(checks) ==
    IF checks = <<>> THEN OK
    ELSE IF Head(checks) # OK THEN Head(checks)
    ELSE FirstError(Tail(checks))

(* ------------------------- roles, pause, cooldown ---------------------- *)
\* a call that reverts changes nothing: every handler below is enabled only
\* when its <name>Error is OK

\* events of the governance functions, as the call at hand emits them
ProviderAdded(provider) == [event |-> "ProviderAdded", provider |-> provider]

ProviderRemoved(provider) == [event |-> "ProviderRemoved", provider |-> provider]

constructorEmits == <<ProviderAdded(Deployer)>>

transferOwnershipErrorNoZeroCheck(sender, newOwner) == onlyOwner(sender)

transferOwnershipError(sender, newOwner) ==
    FirstError(<<onlyOwner(sender),
                 IF newOwner = ZeroAddress THEN "New owner is zero address" ELSE OK>>)

transferOwnership(sender, newOwner) ==
    /\ transferOwnershipError(sender, newOwner) = OK
    /\ owner' = newOwner
    /\ UNCHANGED <<isProvider, paused, cooldownSeconds, timeVars, batchVars,
                   decryptionContexts, oracleVars, now, settledLog, rejected>>

addProviderError(sender) == onlyOwner(sender)

addProviderEmitsAlways(provider) == <<ProviderAdded(provider)>>

addProviderEmits(provider) ==
    IF ~isProvider[provider] THEN <<ProviderAdded(provider)>> ELSE <<>>

addProvider(sender, provider) ==
    /\ addProviderError(sender) = OK
    /\ isProvider' = IF ~isProvider[provider]
                     THEN [isProvider EXCEPT ![provider] = TRUE]
                     ELSE isProvider
    /\ UNCHANGED <<owner, paused, cooldownSeconds, timeVars, batchVars,
                   decryptionContexts, oracleVars, now, settledLog, rejected>>

removeProviderError(sender) == onlyOwner(sender)

removeProviderEmits(provider) ==
    IF isProvider[provider] THEN <<ProviderRemoved(provider)>> ELSE <<>>

removeProvider(sender, provider) ==
    /\ removeProviderError(sender) = OK
    /\ isProvider' = IF isProvider[provider]
                     THEN [isProvider EXCEPT ![provider] = FALSE]
                     ELSE isProvider
    /\ UNCHANGED <<owner, paused, cooldownSeconds, timeVars, batchVars,
                   decryptionContexts, oracleVars, now, settledLog, rejected>>

pauseError(sender) == FirstError(<<onlyOwner(sender), whenNotPaused>>)

pause(sender) ==
    /\ pauseError(sender) = OK
    /\ paused' = TRUE
    /\ UNCHANGED <<owner, isProvider, cooldownSeconds, timeVars, batchVars,
                   decryptionContexts, oracleVars, now, settledLog, rejected>>

unpauseError(sender) == onlyOwner(sender)

unpause(sender) ==
    /\ unpauseError(sender) = OK
    /\ paused' = FALSE
    /\ UNCHANGED <<owner, isProvider, cooldownSeconds, timeVars, batchVars,
                   decryptionContexts, oracleVars, now, settledLog, rejected>>

setCooldownSecondsError(sender, newCooldownSeconds) ==
    FirstError(<<onlyOwner(sender),
                 IF ~(newCooldownSeconds > 0) THEN "Cooldown must be positive" ELSE OK>>)

setCooldownSeconds(sender, newCooldownSeconds) ==
    /\ setCooldownSecondsError(sender, newCooldownSeconds) = OK
    /\ cooldownSeconds' = newCooldownSeconds
    /\ UNCHANGED <<owner, isProvider, paused, timeVars, batchVars,
                   decryptionContexts, oracleVars, now, settledLog, rejected>>

(* ---------------------- batch lifecycle and ledger --------------------- *)
openBatchError(sender) == FirstError(<<onlyOwner(sender), whenNotPaused>>)

openBatchKeepsLedger(sender) ==
    /\ openBatchError(sender) = OK
    /\ currentBatchId' = currentBatchId + 1
    /\ batchOpen' = TRUE
    /\ UNCHANGED <<govVars, timeVars, bids, decryptionContexts, oracleVars,
                   now, settledLog, rejected>>

openBatch(sender) ==
    /\ openBatchError(sender) = OK
    /\ currentBatchId' = currentBatchId + 1
    /\ batchOpen' = TRUE
    /\ bids' = <<>>
    /\ UNCHANGED <<govVars, timeVars, decryptionContexts, oracleVars,
                   now, settledLog, rejected>>

closeBatchErrorNoOpenCheck(sender) ==
    FirstError(<<onlyOwner(sender), whenNotPaused>>)

closeBatchError(sender) ==
    FirstError(<<onlyOwner(sender), whenNotPaused,
                 IF ~batchOpen THEN "BatchNotOpen" ELSE OK>>)

closeBatch(sender) ==
    /\ closeBatchError(sender) = OK
    /\ batchOpen' = FALSE
    /\ UNCHANGED <<govVars, timeVars, bids, currentBatchId,
                   decryptionContexts, oracleVars, now, settledLog, rejected>>

submitBidErrorNoBatchCheck(sender, encryptedBidAmount) ==
    FirstError(<<onlyProvider(sender), whenNotPaused, checkSubmissionCooldown(sender),
                 IF ~isInitialized(encryptedBidAmount) THEN "BidSubmissionFailed" ELSE OK>>)

submitBidErrorNoInitCheck(sender, encryptedBidAmount) ==
    FirstError(<<onlyProvider(sender), whenNotPaused, checkSubmissionCooldown(sender),
                 IF ~batchOpen THEN "BatchNotOpen" ELSE OK>>)

submitBidError(sender, encryptedBidAmount) ==
    FirstError(<<onlyProvider(sender), whenNotPaused, checkSubmissionCooldown(sender),
                 IF ~batchOpen THEN "BatchNotOpen" ELSE OK,
                 IF ~isInitialized(encryptedBidAmount) THEN "BidSubmissionFailed" ELSE OK>>)

\* lastSubmissionTime as it stands when bids.push runs
submitBidTimeAtPush(sender) == [lastSubmissionTime EXCEPT ![sender] = now]

submitBidStampsBeforeChecks(sender, encryptedBidAmount) ==
    IF submitBidError(sender, encryptedBidAmount) \in {"BatchNotOpen", "BidSubmissionFailed"}
    THEN /\ lastSubmissionTime' = [lastSubmissionTime EXCEPT ![sender] = now]
         /\ lastSubmissionTime' # lastSubmissionTime
         /\ UNCHANGED <<govVars, lastDecryptionRequestTime, batchVars,
                        decryptionContexts, oracleVars, now, settledLog, rejected>>
    ELSE /\ submitBidError(sender, encryptedBidAmount) = OK
         /\ lastSubmissionTime' = [lastSubmissionTime EXCEPT ![sender] = now]
         /\ bids' = Append(bids, Bid(sender, encryptedBidAmount))
         /\ UNCHANGED <<govVars, lastDecryptionRequestTime, currentBatchId, batchOpen,
                        decryptionContexts, oracleVars, now, settledLog, rejected>>

submitBid(sender, encryptedBidAmount) ==
    /\ submitBidError(sender, encryptedBidAmount) = OK
    /\ lastSubmissionTime' = [lastSubmissionTime EXCEPT ![sender] = now]
    /\ bids' = Append(bids, Bid(sender, encryptedBidAmount))
    /\ UNCHANGED <<govVars, lastDecryptionRequestTime, currentBatchId, batchOpen,
                   decryptionContexts, oracleVars, now, settledLog, rejected>>

(* ------------------------------ tournament ----------------------------- *)
\* the loop of findHighestBidder / myCallback from index i (1-based) on
RECURSIVE tournamentLoop(_, _, _, _)
tournamentLoop(ledger, i, maxBid, winner) ==
    IF ~(i <= Len(ledger)) THEN [maxBid |-> maxBid, winner |-> winner]
    ELSE LET isGreater == ge(ledger[i].encryptedBidAmount, maxBid)
             newMax == select(ledger[i].encryptedBidAmount, maxBid, isGreater)
             newWinner == IF Decrypt(isGreater) = 1 THEN ledger[i].bidder ELSE winner
         IN  tournamentLoop(ledger, i + 1, newMax, newWinner)

tournamentFromThird(ledger) ==
    tournamentLoop(ledger, 3, ledger[1].encryptedBidAmount, ledger[1].bidder)

tournament(ledger) ==
    tournamentLoop(ledger, 2, ledger[1].encryptedBidAmount, ledger[1].bidder)

buildCts(ledger) ==
    LET t == tournament(ledger) IN <<t.maxBid, keccakAddress(t.winner)>>

(* --------------------------- decryption oracle ------------------------- *)
\* what the oracle signs for a request it was given: the cleartext of the
\* requested maximum
KMSSignature(requestId) ==
    [signed |-> TRUE, requestId |-> requestId,
     cleartexts |-> Decrypt(requestedHandles[requestId][1])]

Forged == [signed |-> FALSE, requestId |-> NoRid, cleartexts |-> 0]

Proofs == {Forged} \cup {KMSSignature(r) : r \in 0..(counterRequest - 1)}

checkSignaturesAnyCleartexts(requestId, cleartexts, proof) ==
    /\ proof.signed
    /\ proof.requestId = requestId

checkSignatures(requestId, cleartexts, proof) ==
    /\ proof.signed
    /\ proof.requestId = requestId
    /\ proof.cleartexts = cleartexts

(* ------------------------ request and settlement ----------------------- *)
findHighestBidderErrorNoLedgerCheck(sender) ==
    FirstError(<<onlyOwner(sender), whenNotPaused, checkDecryptionCooldown(sender)>>)

findHighestBidderError(sender) ==
    FirstError(<<onlyOwner(sender), whenNotPaused, checkDecryptionCooldown(sender),
                 IF Len(bids) = 0 THEN "NoBidsInBatch" ELSE OK>>)

DecryptionRequested(requestId, batchId, stateHash) ==
    [event |-> "DecryptionRequested", requestId |-> requestId,
     batchId |-> batchId, stateHash |-> stateHash]

\* lastDecryptionRequestTime as it stands when FHE.requestDecryption is
\* called: the write of the caller's time comes after the call
findHighestBidderTimeAtRequest(sender) == lastDecryptionRequestTime

findHighestBidderEmits ==
    <<DecryptionRequested(counterRequest, currentBatchId,
                          _hashCiphertexts(buildCts(bids)))>>

findHighestBidderKeyedByBatch(sender) ==
    LET cts == buildCts(bids)
        stateHash == _hashCiphertexts(cts)
        requestId == counterRequest
    IN  /\ findHighestBidderError(sender) = OK
        /\ counterRequest' = counterRequest + 1
        /\ requestedHandles' = [requestedHandles EXCEPT ![requestId] = cts]
        /\ decryptionContexts' =
               [r \in RequestIds |->
                   IF r = currentBatchId
                   THEN DecryptionContext(currentBatchId, stateHash, FALSE)
                   ELSE decryptionContexts[r]]
        /\ lastDecryptionRequestTime' =
               [lastDecryptionRequestTime EXCEPT ![sender] = now]
        /\ UNCHANGED <<govVars, lastSubmissionTime, batchVars, now, settledLog, rejected>>

findHighestBidder(sender) ==
    LET cts == buildCts(bids)
        stateHash == _hashCiphertexts(cts)
        requestId == counterRequest
    IN  /\ findHighestBidderError(sender) = OK
        /\ counterRequest' = counterRequest + 1
        /\ requestedHandles' = [requestedHandles EXCEPT ![requestId] = cts]
        /\ decryptionContexts' =
               [decryptionContexts EXCEPT ![requestId] =
                   DecryptionContext(currentBatchId, stateHash, FALSE)]
        /\ lastDecryptionRequestTime' =
               [lastDecryptionRequestTime EXCEPT ![sender] = now]
        /\ UNCHANGED <<govVars, lastSubmissionTime, batchVars, now, settledLog, rejected>>

myCallbackErrorNoFingerprint(requestId, cleartexts, proof) ==
    IF decryptionContexts[requestId].processed THEN "ReplayAttempt"
    ELSE IF Len(bids) = 0 THEN "NoBidsInBatch"
    ELSE IF ~checkSignatures(requestId, cleartexts, proof) THEN "InvalidProof"
    ELSE OK

myCallbackErrorWhenNotPaused(requestId, cleartexts, proof) ==
    IF paused THEN "PausedError"
    ELSE IF decryptionContexts[requestId].processed THEN "ReplayAttempt"
    ELSE IF Len(bids) = 0 THEN "NoBidsInBatch"
    ELSE IF _hashCiphertexts(buildCts(bids)) # decryptionContexts[requestId].stateHash
         THEN "StateMismatch"
    ELSE IF ~checkSignatures(requestId, cleartexts, proof) THEN "InvalidProof"
    ELSE OK

myCallbackErrorProofFirst(requestId, cleartexts, proof) ==
    IF decryptionContexts[requestId].processed THEN "ReplayAttempt"
    ELSE IF Len(bids) = 0 THEN "NoBidsInBatch"
    ELSE IF ~checkSignatures(requestId, cleartexts, proof) THEN "InvalidProof"
    ELSE IF _hashCiphertexts(buildCts(bids)) # decryptionContexts[requestId].stateHash
         THEN "StateMismatch"
    ELSE OK

myCallbackError(requestId, cleartexts, proof) ==
    IF decryptionContexts[requestId].processed THEN "ReplayAttempt"
    ELSE IF Len(bids) = 0 THEN "NoBidsInBatch"
    ELSE IF _hashCiphertexts(buildCts(bids)) # decryptionContexts[requestId].stateHash
         THEN "StateMismatch"
    ELSE IF ~checkSignatures(requestId, cleartexts, proof) THEN "InvalidProof"
    ELSE OK

AuctionSettled(requestId, batchId, winner, winningBidAmount) ==
    [requestId |-> requestId, batchId |-> batchId, winner |-> winner,
     winningBidAmount |-> winningBidAmount]

myCallbackNoMark(sender, requestId, cleartexts, proof) ==
    /\ myCallbackError(requestId, cleartexts, proof) = OK
    /\ settledLog' = Append(settledLog,
           AuctionSettled(requestId, decryptionContexts[requestId].batchId,
                          tournament(bids).winner, cleartexts))
    /\ UNCHANGED <<govVars, timeVars, batchVars, decryptionContexts, oracleVars,
                   now, rejected>>

myCallbackFirstBidder(sender, requestId, cleartexts, proof) ==
    /\ myCallbackError(requestId, cleartexts, proof) = OK
    /\ decryptionContexts' =
           [decryptionContexts EXCEPT ![requestId].processed = TRUE]
    /\ settledLog' = Append(settledLog,
           AuctionSettled(requestId, decryptionContexts[requestId].batchId,
                          bids[1].bidder, cleartexts))
    /\ UNCHANGED <<govVars, timeVars, batchVars, oracleVars, now, rejected>>

myCallbackMarksBatch(sender, requestId, cleartexts, proof) ==
    /\ myCallbackError(requestId, cleartexts, proof) = OK
    /\ decryptionContexts' =
           [r \in RequestIds |->
               IF decryptionContexts[r].batchId = decryptionContexts[requestId].batchId
               THEN [decryptionContexts[r] EXCEPT !.processed = TRUE]
               ELSE decryptionContexts[r]]
    /\ settledLog' = Append(settledLog,
           AuctionSettled(requestId, decryptionContexts[requestId].batchId,
                          tournament(bids).winner, cleartexts))
    /\ UNCHANGED <<govVars, timeVars, batchVars, oracleVars, now, rejected>>

myCallback(sender, requestId, cleartexts, proof) ==
    LET winner == tournament(bids).winner
        winningBidAmount == cleartexts
    IN  /\ myCallbackError(requestId, cleartexts, proof) = OK
        /\ decryptionContexts' =
               [decryptionContexts EXCEPT ![requestId].processed = TRUE]
        /\ settledLog' = Append(settledLog,
               AuctionSettled(requestId, decryptionContexts[requestId].batchId,
                              winner, winningBidAmount))
        /\ UNCHANGED <<govVars, timeVars, batchVars, oracleVars, now, rejected>>

myCallbackRejectedTerminal(sender, requestId, cleartexts, proof) ==
    LET err == myCallbackError(requestId, cleartexts, proof) IN
    /\ err \in {"StateMismatch", "InvalidProof"}
    /\ rejected' = rejected \cup {requestId}
    /\ decryptionContexts' =
           [decryptionContexts EXCEPT ![requestId].processed = TRUE]
    /\ UNCHANGED <<govVars, timeVars, batchVars, oracleVars, now, settledLog>>

\* a callback that reverts with an integrity failure: the contract state is
\* rolled back; only the history of rejected request ids records it
myCallbackRejected(sender, requestId, cleartexts, proof) ==
    LET err == myCallbackError(requestId, cleartexts, proof) IN
    /\ err \in {"StateMismatch", "InvalidProof"}
    /\ rejected' = rejected \cup {requestId}
    /\ UNCHANGED <<govVars, timeVars, batchVars, decryptionContexts, oracleVars,
                   now, settledLog>>

(* --------------------------------- time -------------------------------- *)
Tick(dt) ==
    /\ now' = now + dt
    /\ UNCHANGED <<govVars, timeVars, batchVars, decryptionContexts, oracleVars,
                   settledLog, rejected>>

(* ----------------------------- specification --------------------------- *)
Next ==
    \/ \E s \in Senders, n \in OwnerInputs : transferOwnership(s, n)
    \/ \E s \in Senders, p \in Senders : addProvider(s, p)
    \/ \E s \in Senders, p \in Senders : removeProvider(s, p)
    \/ \E s \in Senders : pause(s)
    \/ \E s \in Senders : unpause(s)
    \/ \E s \in Senders, c \in CooldownInputs : setCooldownSeconds(s, c)
    \/ \E s \in Senders : currentBatchId < MaxBatch /\ openBatch(s)
    \/ \E s \in Senders : closeBatch(s)
    \/ \E s \in Senders, h \in HandleInputs : Len(bids) < MaxBids /\ submitBid(s, h)
    \/ \E s \in Senders : counterRequest < MaxRequests /\ findHighestBidder(s)
    \/ \E r \in RequestIds, c \in Cleartexts, p \in Proofs :
          myCallback(Relayer, r, c, p)
    \/ \E dt \in TickSteps : now + dt <= MaxTime /\ Tick(dt)

Spec == Init /\ [][Next]_vars

(* One batch, three bidders: the tournament over every ledger of up to      *)
(* TournamentBids bids, its request and its settlement.                     *)
TournamentInputs == {InputHandle(k) : k \in 1..TournamentHandles}
TournamentCleartexts == {PlainOf(k) : k \in 1..TournamentHandles}

NextTournament ==
    \/ \E p \in Addr : addProvider(Deployer, p)
    \/ currentBatchId < 1 /\ openBatch(Deployer)
    \/ closeBatch(Deployer)
    \/ \E s \in Addr, h \in TournamentInputs :
          Len(bids) < TournamentBids /\ submitBid(s, h)
    \/ counterRequest < 1 /\ findHighestBidder(Deployer)
    \/ \E r \in RequestIds, c \in TournamentCleartexts, p \in Proofs :
          myCallback(Relayer, r, c, p)
    \/ \E dt \in TickSteps : now + dt <= MaxTime /\ Tick(dt)

SpecTournament == Init /\ [][NextTournament]_vars

(* The main specification together with the callbacks that revert with an  *)
(* integrity failure, which the history variable rejected records.         *)
NextRetry ==
    \/ \E p \in Senders : addProvider(Deployer, p)
    \/ currentBatchId < MaxBatch /\ openBatch(Deployer)
    \/ closeBatch(Deployer)
    \/ \E s \in Senders, h \in InputHandles : Len(bids) < MaxBids /\ submitBid(s, h)
    \/ counterRequest < MaxRequests /\ findHighestBidder(Deployer)
    \/ \E r \in RequestIds, c \in Cleartexts, p \in Proofs :
          myCallback(Relayer, r, c, p)
    \/ \E r \in RequestIds, c \in Cleartexts, p \in Proofs :
          myCallbackRejected(Relayer, r, c, p)
    \/ \E dt \in TickSteps : now + dt <= MaxTime /\ Tick(dt)

SpecRetry == Init /\ [][NextRetry]_vars

(* Several requests in flight over the ledgers of one bidder, together     *)
(* with the callbacks that revert.                                          *)
NextRequests ==
    \/ \E s \in Senders : pause(s)
    \/ \E s \in Senders : unpause(s)
    \/ \E s \in Senders : currentBatchId < MaxBatch /\ openBatch(s)
    \/ \E s \in Senders : closeBatch(s)
    \/ \E s \in Senders, h \in InputHandles : Len(bids) < MaxBids /\ submitBid(s, h)
    \/ \E s \in Senders : counterRequest < ConcurrentRequests /\ findHighestBidder(s)
    \/ \E r \in RequestIds, c \in Cleartexts, p \in Proofs :
          myCallback(Relayer, r, c, p)
    \/ \E r \in RequestIds, c \in Cleartexts, p \in Proofs :
          myCallbackRejected(Relayer, r, c, p)
    \/ \E dt \in TickSteps : now + dt <= MaxTime /\ Tick(dt)

SpecRequests == Init /\ [][NextRequests]_vars

(* Every operation around pending requests, bids of one amount, and an      *)
(* oracle that keeps delivering the callback of a request with its          *)
(* cleartext and proof: the relayer retries until the transaction lands.    *)
deliver(requestId) ==
    myCallback(Relayer, requestId, Decrypt(requestedHandles[requestId][1]),
               KMSSignature(requestId))

NextDelivery ==
    \/ \E n \in OwnerInputs : transferOwnership(Deployer, n)
    \/ \E s \in Senders : addProvider(s, "B")
    \/ \E s \in Senders : removeProvider(s, "B")
    \/ \E s \in Senders : pause(s)
    \/ \E s \in Senders : unpause(s)
    \/ \E s \in Senders, c \in CooldownInputs : setCooldownSeconds(s, c)
    \/ \E s \in Senders : currentBatchId < MaxBatch /\ openBatch(s)
    \/ \E s \in Senders : closeBatch(s)
    \/ \E s \in Senders : Len(bids) < MaxBids /\ submitBid(s, InputHandle(1))
    \/ \E s \in Senders : counterRequest < ConcurrentRequests /\ findHighestBidder(s)
    \/ \E r \in RequestIds, c \in Cleartexts, p \in Proofs :
          myCallback(Relayer, r, c, p)
    \/ \E dt \in TickSteps : now + dt <= MaxTime /\ Tick(dt)

SpecDelivery ==
    /\ Init
    /\ [][NextDelivery]_vars
    /\ \A r \in RequestIds : WF_vars(deliver(r))

TypeOK ==
    /\ owner \in Addr
    /\ isProvider \in [Addr -> BOOLEAN]
    /\ paused \in BOOLEAN
    /\ batchOpen \in BOOLEAN
    /\ cooldownSeconds \in 1..MaxUint256
    /\ currentBatchId \in Nat
    /\ counterRequest \in 0..ConcurrentRequests
    /\ now \in StartTime..MaxTime
    /\ \A i \in 1..Len(bids) :
          bids[i].bidder \in Addr /\ isInitialized(bids[i].encryptedBidAmount)

(* ---------------------- vocabulary of the properties ------------------- *)
Amount(bid) == Decrypt(bid.encryptedBidAmount)

Amounts(ledger) == [i \in 1..Len(ledger) |-> Amount(ledger[i])]

Bidders(ledger) == [i \in 1..Len(ledger) |-> ledger[i].bidder]

\* the largest plaintext amount of a non-empty ledger
MaxPlain(ledger) ==
    CHOOSE m \in {Amount(ledger[i]) : i \in 1..Len(ledger)} :
        \A i \in 1..Len(ledger) : Amount(ledger[i]) <= m

\* the position of the last-submitted bid that carries the largest amount
LastMaxIndex(ledger) ==
    CHOOSE i \in 1..Len(ledger) :
        /\ Amount(ledger[i]) = MaxPlain(ledger)
        /\ \A j \in (i + 1)..Len(ledger) : Amount(ledger[j]) < MaxPlain(ledger)

Issued == 0..(counterRequest - 1)

\* the cleartext the oracle returns for a request
TrueCleartext(requestId) == Decrypt(requestedHandles[requestId][1])

\* a callback carrying the true cleartext and the oracle's proof would succeed
Settleable(requestId) ==
    myCallbackError(requestId, TrueCleartext(requestId), KMSSignature(requestId)) = OK

EventsOf(requestId) ==
    {i \in 1..Len(settledLog) : settledLog[i].requestId = requestId}

(* ------------------------------- claims -------------------------------- *)

\* C1: for every non-empty ledger, the encrypted maximum that
\* findHighestBidder hands to the oracle decrypts to the largest plaintext
\* amount of the ledger, and the winner it commits (by hash, in the request
\* and in the fingerprint) is the bidder of a bid with that amount.
C1_RequestedMaxIsTrueMax ==
    [][\A s \in Addr : findHighestBidder(s) =>
         \E r \in RequestIds :
            /\ r = counterRequest
            /\ Decrypt(requestedHandles'[r][1]) = MaxPlain(bids)
            /\ \E i \in 1..Len(bids) :
                  /\ Amount(bids[i]) = MaxPlain(bids)
                  /\ requestedHandles'[r][2] = keccakAddress(bids[i].bidder)
            /\ decryptionContexts'[r].stateHash = _hashCiphertexts(requestedHandles'[r])
      ]_vars

\* a request issued over the ledger [5, 15, 9]: the maximum is in the middle
C1_Witness ==
    /\ counterRequest = 1
    /\ Amounts(bids) = <<5, 15, 9>>
    /\ requestedHandles[0] = buildCts(bids)
    /\ Decrypt(requestedHandles[0][1]) = 15

\* C2: when several bids carry the largest amount the committed winner is
\* the bidder of the last-submitted of them, and extending a ledger by a bid
\* strictly below its running maximum leaves the tournament's winner as it was.
C2_LastMaximalBidWins ==
    [][\A s \in Addr : findHighestBidder(s) =>
         /\ \E r \in RequestIds :
               /\ r = counterRequest
               /\ requestedHandles'[r][2] =
                      keccakAddress(bids[LastMaxIndex(bids)].bidder)
         /\ \A k \in 1..(Len(bids) - 1) :
               Amount(bids[k + 1]) < MaxPlain(SubSeq(bids, 1, k)) =>
                   tournament(SubSeq(bids, 1, k + 1)).winner =
                       tournament(SubSeq(bids, 1, k)).winner
      ]_vars

\* amounts [5, 15, 15] from A, B, C: the request commits C
C2_Witness ==
    /\ counterRequest = 1
    /\ Amounts(bids) = <<5, 15, 15>>
    /\ Bidders(bids) = <<"A", "B", "C">>
    /\ requestedHandles[0] = buildCts(bids)
    /\ requestedHandles[0][2] = keccakAddress("C")

\* C6: right after findHighestBidder a callback with the true cleartext and
\* the oracle's proof would succeed; it keeps being able to succeed across
\* every step that leaves the ledger alone; and when it succeeds it emits
\* AuctionSettled with the tournament's winner and the largest plaintext bid.
C6_EndToEndSettlement ==
    [][/\ \A s \in Addr : findHighestBidder(s) =>
             \E r \in RequestIds : r = counterRequest /\ Settleable(r)'
       /\ \A r \in Issued :
             (Settleable(r) /\ bids' = bids /\ ~decryptionContexts'[r].processed)
                 => Settleable(r)'
       /\ \A r \in RequestIds, c \in TournamentCleartexts, p \in Proofs :
             myCallback(Relayer, r, c, p) =>
                 /\ c = TrueCleartext(r)
                 /\ settledLog' = Append(settledLog,
                        AuctionSettled(r, decryptionContexts[r].batchId,
                                       tournament(bids).winner, MaxPlain(bids)))
                 /\ tournament(bids).winner = bids[LastMaxIndex(bids)].bidder
      ]_vars

\* bids [5, 15, 9] from A, B, C, batch closed, settled: winner B, amount 15
C6_Witness ==
    /\ Amounts(bids) = <<5, 15, 9>>
    /\ Bidders(bids) = <<"A", "B", "C">>
    /\ ~batchOpen
    /\ settledLog = <<AuctionSettled(0, 1, "B", 15)>>

\* what holds of every request id in every state
C3_ReplayState ==
    \A r \in RequestIds :
        /\ decryptionContexts[r].processed =>
              \A c \in Cleartexts, p \in Proofs \cup {KMSSignature(r)} :
                  myCallbackError(r, c, p) = "ReplayAttempt"
        /\ Cardinality(EventsOf(r)) <= 1
        /\ decryptionContexts[r].processed <=> EventsOf(r) # {}

\* C3: a request id is settled at most once: a processed context answers
\* every callback with ReplayAttempt whatever it carries, the processed flag
\* is set by the successful callback and never cleared, and the log holds at
\* most one AuctionSettled per request id (one exactly when processed).
C3_CallbackAtMostOnce ==
    [][/\ C3_ReplayState'
       /\ \A r \in RequestIds :
             /\ decryptionContexts[r].processed => decryptionContexts'[r].processed
             /\ (\E c \in Cleartexts, p \in Proofs : myCallback(Relayer, r, c, p))
                   => (~decryptionContexts[r].processed /\ decryptionContexts'[r].processed)
      ]_vars

\* a settled request in a state where its fingerprint still matches: only
\* the processed flag stands between a second callback and a second event
C3_Witness ==
    \E r \in Issued :
        /\ decryptionContexts[r].processed
        /\ EventsOf(r) # {}
        /\ Len(bids) > 0
        /\ _hashCiphertexts(buildCts(bids)) = decryptionContexts[r].stateHash
        /\ myCallbackError(r, TrueCleartext(r), KMSSignature(r)) = "ReplayAttempt"

\* C4 (as claimed): once openBatch has run after a request was issued, every
\* callback for that still unprocessed request fails with StateMismatch.
C4_NewBatchGivesStateMismatch ==
    \A r \in Issued :
        (~decryptionContexts[r].processed
            /\ decryptionContexts[r].batchId < currentBatchId)
        => \A c \in Cleartexts, p \in Proofs :
               myCallbackError(r, c, p) = "StateMismatch"

\* C5: AuctionSettled is appended only for an issued request, by a step in
\* which the fingerprint recomputed from the current ledger equals the stored
\* one and the amount is one the oracle's proof verifies; its batchId and
\* winner are those committed at request time, which no step changes.
C5_SettledOnlyOnMatchAndProof ==
    [][/\ settledLog' # settledLog =>
             \E r \in Issued :
                /\ settledLog' = Append(settledLog, settledLog'[Len(settledLog')])
                /\ settledLog'[Len(settledLog')].requestId = r
                /\ Len(bids) > 0
                /\ _hashCiphertexts(buildCts(bids)) = decryptionContexts[r].stateHash
                /\ checkSignatures(r, settledLog'[Len(settledLog')].winningBidAmount,
                                   KMSSignature(r))
                /\ settledLog'[Len(settledLog')].batchId = decryptionContexts[r].batchId
                /\ keccakAddress(settledLog'[Len(settledLog')].winner)
                       = requestedHandles[r][2]
       /\ \A r \in Issued :
             /\ decryptionContexts'[r].batchId = decryptionContexts[r].batchId
             /\ decryptionContexts'[r].stateHash = decryptionContexts[r].stateHash
             /\ requestedHandles'[r] = requestedHandles[r]
             /\ decryptionContexts[r].stateHash = _hashCiphertexts(requestedHandles[r])
       /\ \A s \in Addr : findHighestBidder(s) =>
             \E r \in RequestIds :
                /\ r = counterRequest
                /\ decryptionContexts'[r] =
                       DecryptionContext(currentBatchId,
                                         _hashCiphertexts(buildCts(bids)), FALSE)
      ]_vars

\* a settlement of a two-bid ledger
C5_Witness ==
    /\ Len(settledLog) = 1
    /\ Len(bids) = 2
    /\ settledLog[1].batchId = currentBatchId
    /\ settledLog[1].winner = tournament(bids).winner
    /\ _hashCiphertexts(buildCts(bids)) = decryptionContexts[settledLog[1].requestId].stateHash

\* C7 (as claimed): after a provider's successful submission, submitBid before
\* lastSubmissionTime + cooldownSeconds fails with CooldownActive, and from
\* that time on (batch open, not paused, handle initialized) it succeeds.
C7_CooldownWindow ==
    \A p \in Addr, h \in InputHandles :
        (isProvider[p] /\ ~paused /\ lastSubmissionTime[p] > 0) =>
            /\ now < lastSubmissionTime[p] + cooldownSeconds
                  => submitBidError(p, h) = "CooldownActive"
            /\ (now >= lastSubmissionTime[p] + cooldownSeconds /\ batchOpen)
                  => submitBidError(p, h) = OK

\* the pause flag answers every provider with PausedError
C8_PausedSubmission ==
    paused => \A p \in Addr, h \in HandleInputs :
                  isProvider[p] => submitBidError(p, h) = "PausedError"

\* C8: while paused every submitBid by a provider fails with PausedError;
\* pause and unpause leave the ledger, batchOpen and currentBatchId alone;
\* right after unpause a submitBid that meets the other preconditions is
\* accepted, and an accepted submitBid appends to the ledger as it stands.
C8_PauseBlocksSubmission ==
    [][/\ C8_PausedSubmission'
       /\ \A s \in Addr : (pause(s) \/ unpause(s)) =>
             UNCHANGED <<bids, batchOpen, currentBatchId>>
       /\ \A s \in Addr : unpause(s) =>
             \A p \in Addr, h \in InputHandles :
                 (isProvider[p] /\ batchOpen
                    /\ now >= lastSubmissionTime[p] + cooldownSeconds)
                 => (submitBidError(p, h) = OK)'
       /\ \A p \in Addr, h \in HandleInputs : submitBid(p, h) =>
             bids' = Append(bids, Bid(p, h))
      ]_vars

\* paused over an open batch that already holds a bid
C8_Witness ==
    /\ paused
    /\ batchOpen
    /\ Len(bids) > 0
    /\ \E p \in Addr :
          /\ isProvider[p]
          /\ now >= lastSubmissionTime[p] + cooldownSeconds
          /\ submitBidError(p, InputHandle(1)) = "PausedError"

\* C9 (as claimed): an amount published for the current batch is the largest
\* bid of that batch, whatever is submitted to it later, and two settlements
\* of one batch report the same amount.
C9_OnlyFinalMaximumPublished ==
    /\ \A i \in 1..Len(settledLog) :
          settledLog[i].batchId = currentBatchId =>
              (Len(bids) > 0 /\ settledLog[i].winningBidAmount = MaxPlain(bids))
    /\ \A i, j \in 1..Len(settledLog) :
          settledLog[i].batchId = settledLog[j].batchId =>
              settledLog[i].winningBidAmount = settledLog[j].winningBidAmount

C10_StillOpen ==
    \A r \in rejected \cap Issued :
        (EventsOf(r) = {} /\ Len(bids) > 0
           /\ _hashCiphertexts(buildCts(bids)) = decryptionContexts[r].stateHash)
        => Settleable(r)

C11_PassesModifiers(p) ==
    FirstError(<<onlyProvider(p), whenNotPaused, checkSubmissionCooldown(p)>>) = OK

\* C11: the ledger grows only by a successful submitBid while batchOpen is
\* true; while no batch is open every submitBid fails, with BatchNotOpen once
\* the caller is past the modifiers (whatever handle is supplied); and while
\* no batch is open the only step that changes the ledger is openBatch.
C11_LedgerGrowsOnlyWhileOpen ==
    [][/\ Len(bids') > Len(bids) =>
             /\ batchOpen
             /\ \E p \in Addr, h \in TournamentInputs : submitBid(p, h)
       /\ ~batchOpen =>
             /\ \A p \in Addr, h \in HandleInputs :
                   /\ ~submitBid(p, h)
                   /\ submitBidError(p, h) # OK
                   /\ C11_PassesModifiers(p) => submitBidError(p, h) = "BatchNotOpen"
             /\ bids' # bids => \E s \in Addr : openBatch(s)
       /\ \A s \in Addr : closeBatch(s) => (bids' = bids /\ ~batchOpen')
      ]_vars

\* a closed batch that holds bids, and a provider past the modifiers who is
\* answered BatchNotOpen
C11_Witness ==
    /\ ~batchOpen
    /\ currentBatchId > 0
    /\ Len(bids) > 0
    /\ \E p \in Addr :
          /\ C11_PassesModifiers(p)
          /\ submitBidError(p, InputHandle(1)) = "BatchNotOpen"

\* C12 (as claimed): a successful openBatch happens only while no batch is
\* open, a successful closeBatch only while one is open, and the ledger of
\* an open batch is never emptied.
C12_LifecycleAlternates ==
    [][/\ \A s \in Addr : openBatch(s) => ~batchOpen
       /\ \A s \in Addr : closeBatch(s) => batchOpen
       /\ (batchOpen /\ Len(bids) > 0) => Len(bids') > 0
      ]_vars

\* C13 (as claimed): the pause flag is checked before the role and the role
\* before the cooldown.
C13_PauseBeforeRoleBeforeCooldown ==
    /\ paused =>
          /\ \A s \in Addr, h \in HandleInputs :
                ~isProvider[s] => submitBidError(s, h) = "PausedError"
          /\ \A s \in Addr : s # owner =>
                /\ openBatchError(s) = "PausedError"
                /\ closeBatchError(s) = "PausedError"
                /\ findHighestBidderError(s) = "PausedError"
    /\ ~paused =>
          /\ \A s \in Addr, h \in HandleInputs :
                ~isProvider[s] => submitBidError(s, h) = "NotProvider"
          /\ \A s \in Addr : s # owner => findHighestBidderError(s) = "NotOwner"

\* C14 (as claimed): while paused no step other than unpause,
\* transferOwnership, addProvider, removeProvider and the passing of time
\* changes the state; in particular no AuctionSettled is emitted and the
\* cooldown is not changed.
C14_PausedFreezesEngine ==
    [][paused =>
          /\ settledLog' = settledLog
          /\ cooldownSeconds' = cooldownSeconds
          /\ UNCHANGED <<batchVars, decryptionContexts, oracleVars, timeVars>>
      ]_vars

\* C15 (as claimed): every successful findHighestBidder happens while
\* batchOpen is false, and no bid is appended while an issued request of the
\* current batch waits for its callback.
C15_RequestOnlyWhenClosed ==
    [][/\ \A s \in Addr : findHighestBidder(s) => ~batchOpen
       /\ (\E r \in Issued :
              /\ ~decryptionContexts[r].processed
              /\ decryptionContexts[r].batchId = currentBatchId)
          => ~(\E p \in Addr, h \in HandleInputs : submitBid(p, h))
      ]_vars

\* every callback for the request is answered StateMismatch
C16_Mismatch(r) ==
    \A c \in Cleartexts, p \in Proofs \cup {KMSSignature(r)} :
        myCallbackError(r, c, p) = "StateMismatch"

C17_Settled(r) ==
    /\ decryptionContexts[r].processed
    /\ \E i \in EventsOf(r) :
          /\ settledLog[i].batchId = decryptionContexts[r].batchId
          /\ keccakAddress(settledLog[i].winner) = requestedHandles[r][2]
          /\ settledLog[i].winningBidAmount = TrueCleartext(r)

\* the ledger still is the one the request was issued over
C17_LedgerAsRequested(r) ==
    /\ Len(bids) > 0
    /\ _hashCiphertexts(buildCts(bids)) = decryptionContexts[r].stateHash

\* C17: the ledger of an issued request stays as requested across every step
\* other than submitBid and openBatch (pause, unpause, closeBatch, provider,
\* ownership and cooldown changes, further requests, callbacks); as long as
\* it does, the callback with the oracle's proof is accepted unless the
\* request is already processed; so with the oracle delivering that callback
\* the request is eventually settled, its AuctionSettled carrying the batch
\* id and winner committed at request time, unless a submitBid or openBatch
\* changes the ledger first.
C17_PendingRequestEventuallySettled ==
    /\ [][\A r \in Issued :
             /\ (/\ C17_LedgerAsRequested(r)
                 /\ ~(\E p \in Addr, h \in InputHandles : submitBid(p, h))
                 /\ ~(\E s \in Addr : openBatch(s)))
                => C17_LedgerAsRequested(r)'
             /\ (C17_LedgerAsRequested(r) /\ ~decryptionContexts[r].processed)
                => (Settleable(r) /\ ENABLED deliver(r))
         ]_vars
    /\ [][\A s \in Addr : findHighestBidder(s) =>
             \E r \in RequestIds : r = counterRequest /\ C17_LedgerAsRequested(r)'
         ]_vars
    /\ \A r \in RequestIds :
          (r \in Issued /\ C17_LedgerAsRequested(r))
              ~> (C17_Settled(r) \/ ~C17_LedgerAsRequested(r))

\* a request settled while the engine was paused, the batch closed and the
\* ownership handed over since the request
C17_Witness ==
    \E r \in Issued :
        /\ C17_Settled(r)
        /\ paused
        /\ ~batchOpen
        /\ owner # Deployer
        /\ lastDecryptionRequestTime[Deployer] > 0

\* C18: while a request waits for its callback, findHighestBidder by the
\* owner is accepted as soon as the owner's decryption cooldown has elapsed
\* (not paused, ledger not empty) and stores a new context under a new id; a
\* callback for one request, accepted or rejected, leaves the batch id,
\* fingerprint and processed flag of every other request as they were; and
\* two unprocessed requests with the same fingerprint can both be settled.
C18_IndependentRequests ==
    [][/\ (/\ \E r \in Issued : ~decryptionContexts[r].processed
           /\ ~paused
           /\ Len(bids) > 0
           /\ now >= lastDecryptionRequestTime[owner] + cooldownSeconds)
          => findHighestBidderError(owner) = OK
       /\ \A s \in Addr : findHighestBidder(s) =>
             /\ counterRequest' = counterRequest + 1
             /\ \A r \in Issued : decryptionContexts'[r] = decryptionContexts[r]
       /\ \A r \in RequestIds, c \in Cleartexts, p \in Proofs :
             (myCallback(Relayer, r, c, p) \/ myCallbackRejected(Relayer, r, c, p))
             => \A q \in RequestIds \ {r} :
                    decryptionContexts'[q] = decryptionContexts[q]
       /\ \A r, q \in Issued :
             (/\ decryptionContexts[r].stateHash = decryptionContexts[q].stateHash
              /\ ~decryptionContexts[q].processed
              /\ Settleable(r))
             => Settleable(q)
      ]_vars

\* two requests over one ledger of one batch, both settled: two
\* AuctionSettled events with the same batch id, winner and amount
C18_Witness ==
    /\ Len(settledLog) = 2
    /\ settledLog[1].requestId # settledLog[2].requestId
    /\ settledLog[1].batchId = settledLog[2].batchId
    /\ settledLog[1].winner = settledLog[2].winner
    /\ settledLog[1].winningBidAmount = settledLog[2].winningBidAmount
    /\ decryptionContexts[0].processed
    /\ decryptionContexts[1].processed

\* C19: currentBatchId never decreases and changes only by a successful
\* openBatch, which adds exactly 1, sets batchOpen, empties the ledger and
\* leaves owner, providers, pause flag, cooldown state and every stored
\* decryption context as they were.
C19_OpenBatchFrame ==
    [][/\ currentBatchId' >= currentBatchId
       /\ currentBatchId' # currentBatchId => \E s \in Addr : openBatch(s)
       /\ \A s \in Addr : openBatch(s) =>
             /\ currentBatchId' = currentBatchId + 1
             /\ batchOpen'
             /\ bids' = <<>>
             /\ UNCHANGED <<owner, isProvider, paused, cooldownSeconds,
                            lastSubmissionTime, lastDecryptionRequestTime,
                            decryptionContexts, settledLog>>
      ]_vars

\* the second batch just opened over a stored, unprocessed context of the
\* first, by an owner who is not the deployer
C19_Witness ==
    /\ currentBatchId = 2
    /\ batchOpen
    /\ bids = <<>>
    /\ counterRequest = 1
    /\ decryptionContexts[0].batchId = 1
    /\ ~decryptionContexts[0].processed

\* C20: a successful submitBid appends exactly the entry (caller, handle) and
\* stamps the caller's lastSubmissionTime; within a batch the ledger before a
\* step is a prefix of the ledger after it; a submitBid with an uninitialized
\* handle that is past the other checks fails with BidSubmissionFailed, and
\* the ledger never holds an uninitialized handle.
C20_AppendOnlyLedger ==
    [][/\ \A p \in Addr, h \in HandleInputs : submitBid(p, h) =>
             /\ isInitialized(h)
             /\ Len(bids') = Len(bids) + 1
             /\ bids'[Len(bids')] = Bid(p, h)
             /\ SubSeq(bids', 1, Len(bids)) = bids
             /\ lastSubmissionTime' = [lastSubmissionTime EXCEPT ![p] = now]
       /\ currentBatchId' = currentBatchId =>
             /\ Len(bids') >= Len(bids)
             /\ SubSeq(bids', 1, Len(bids)) = bids
       /\ \A p \in Addr :
             (C11_PassesModifiers(p) /\ batchOpen) =>
                 /\ submitBidError(p, UninitializedHandle) = "BidSubmissionFailed"
                 /\ ~submitBid(p, UninitializedHandle)
       /\ \A i \in 1..Len(bids') : isInitialized(bids'[i].encryptedBidAmount)
       /\ lastSubmissionTime' # lastSubmissionTime => Len(bids') = Len(bids) + 1
      ]_vars

\* a ledger of two bids of an open batch, and a provider past the modifiers
\* whose uninitialized handle is refused
C20_Witness ==
    /\ batchOpen
    /\ Len(bids) = 2
    /\ bids[1] # bids[2]
    /\ \E p \in Addr :
          /\ C11_PassesModifiers(p)
          /\ submitBidError(p, UninitializedHandle) = "BidSubmissionFailed"

\* C21: a successful findHighestBidder stores under the oracle's new request
\* id the context (currentBatchId, keccak256 of ([max handle, hash(winner)],
\* address(this)), processed = false), hands the same two values to the
\* oracle, emits DecryptionRequested with that id, batch id and fingerprint,
\* and leaves ledger, batchOpen, currentBatchId and every other context alone.
C21_RequestStoresContext ==
    [][\A s \in Addr : findHighestBidder(s) =>
          \E r \in RequestIds :
             /\ r = counterRequest
             /\ counterRequest' = r + 1
             /\ decryptionContexts'[r].batchId = currentBatchId
             /\ decryptionContexts'[r].stateHash =
                    <<"keccak256",
                      <<tournament(bids).maxBid, keccakAddress(tournament(bids).winner)>>,
                      AddressThis>>
             /\ decryptionContexts'[r].processed = FALSE
             /\ requestedHandles'[r] =
                    <<tournament(bids).maxBid, keccakAddress(tournament(bids).winner)>>
             /\ findHighestBidderEmits =
                    <<DecryptionRequested(r, decryptionContexts'[r].batchId,
                                          decryptionContexts'[r].stateHash)>>
             /\ UNCHANGED <<bids, batchOpen, currentBatchId, settledLog>>
             /\ \A q \in RequestIds \ {r} :
                   /\ decryptionContexts'[q] = decryptionContexts[q]
                   /\ requestedHandles'[q] = requestedHandles[q]
      ]_vars

\* a second request, of the second batch, stored next to the settled request
\* of the first
C21_Witness ==
    /\ counterRequest = 2
    /\ decryptionContexts[0].batchId = 1
    /\ decryptionContexts[0].processed
    /\ Len(bids) > 0
    /\ decryptionContexts[1] =
           DecryptionContext(2, _hashCiphertexts(buildCts(bids)), FALSE)
    /\ currentBatchId = 2

\* C22: for an unprocessed request whose recomputed fingerprint matches, a
\* callback whose proof is not the oracle's signature over the supplied
\* cleartexts (forged, signed for another request, or signed for another
\* cleartext) fails with InvalidProof; the rejected call leaves the contexts
\* and the event log as they were, the request unprocessed.
C22_BadProofIsInvalidProof ==
    [][/\ \A r \in Issued, c \in Cleartexts, p \in Proofs :
             (/\ ~decryptionContexts[r].processed
              /\ C17_LedgerAsRequested(r)
              /\ (p # KMSSignature(r) \/ c # TrueCleartext(r)))
             => /\ myCallbackError(r, c, p) = "InvalidProof"
                /\ ~myCallback(Relayer, r, c, p)
       /\ \A r \in RequestIds, c \in Cleartexts, p \in Proofs :
             (/\ myCallbackRejected(Relayer, r, c, p)
              /\ myCallbackError(r, c, p) = "InvalidProof")
             => /\ decryptionContexts' = decryptionContexts
                /\ ~decryptionContexts'[r].processed
                /\ settledLog' = settledLog
                /\ EventsOf(r)' = {}
      ]_vars

\* two pending requests over the same ledger, one of them with a rejected
\* callback: the signature of the one is no proof for the other
C22_Witness ==
    /\ counterRequest = 2
    /\ \E r \in rejected :
          /\ ~decryptionContexts[r].processed
          /\ C17_LedgerAsRequested(r)
          /\ \E q \in Issued \ {r} :
                myCallbackError(r, TrueCleartext(r), KMSSignature(q)) = "InvalidProof"

\* findHighestBidder by the owner on an empty ledger, past the modifiers
C23_EmptyLedgerRefused ==
    (Len(bids) = 0 /\ ~paused
       /\ now >= lastDecryptionRequestTime[owner] + cooldownSeconds)
    => findHighestBidderError(owner) = "NoBidsInBatch"

\* C23: findHighestBidder by the owner on an empty ledger (not paused,
\* cooldown elapsed) fails with NoBidsInBatch, also right after openBatch;
\* over an empty ledger no step issues an oracle request, stores a context
\* or changes lastDecryptionRequestTime.
C23_NoRequestOnEmptyLedger ==
    /\ []C23_EmptyLedgerRefused
    /\ [][/\ Len(bids) = 0 =>
                /\ \A s \in Addr : findHighestBidderError(s) # OK
                /\ UNCHANGED <<counterRequest, requestedHandles, decryptionContexts,
                               lastDecryptionRequestTime>>
          /\ \A s \in Addr : openBatch(s) =>
                (\A q \in Addr : findHighestBidderError(q) # OK)'
         ]_vars

\* the second batch just opened by an owner whose cooldown has elapsed, after
\* a request of the first batch
C23_Witness ==
    /\ batchOpen
    /\ Len(bids) = 0
    /\ currentBatchId = 2
    /\ counterRequest = 1
    /\ lastDecryptionRequestTime[owner] > 0
    /\ findHighestBidderError(owner) = "NoBidsInBatch"

\* C24: closeBatch by the owner of an unpaused engine with no batch open
\* fails with BatchNotOpen, and no closeBatch is accepted then; an accepted
\* closeBatch sets batchOpen to false and leaves the ledger, currentBatchId,
\* the decryption contexts and everything else as they were.
C24_CloseBatchFrame ==
    [][/\ (~batchOpen /\ ~paused) => closeBatchError(owner) = "BatchNotOpen"
       /\ ~batchOpen => \A s \in Addr : closeBatchError(s) # OK
       /\ \A s \in Addr : closeBatch(s) =>
             /\ batchOpen
             /\ batchOpen' = FALSE
             /\ UNCHANGED <<bids, currentBatchId, decryptionContexts, govVars,
                            timeVars, oracleVars, settledLog>>
      ]_vars

\* a closed batch with its two bids and its pending request kept
C24_Witness ==
    /\ ~batchOpen
    /\ ~paused
    /\ Len(bids) = 2
    /\ counterRequest = 1
    /\ decryptionContexts[0].batchId = currentBatchId
    /\ closeBatchError(owner) = "BatchNotOpen"

\* every owner-only operation refuses the caller
C25_RefusedAsNotOwner(s) ==
    /\ \A n \in Addr \cup {ZeroAddress} : transferOwnershipError(s, n) = "NotOwner"
    /\ addProviderError(s) = "NotOwner"
    /\ removeProviderError(s) = "NotOwner"
    /\ pauseError(s) = "NotOwner"
    /\ unpauseError(s) = "NotOwner"
    /\ \A c \in CooldownInputs : setCooldownSecondsError(s, c) = "NotOwner"
    /\ openBatchError(s) = "NotOwner"
    /\ closeBatchError(s) = "NotOwner"
    /\ findHighestBidderError(s) = "NotOwner"

\* C25: a caller other than the current owner is refused with NotOwner by
\* transferOwnership, addProvider, removeProvider, pause, unpause,
\* setCooldownSeconds, openBatch, closeBatch and findHighestBidder, and a
\* caller that is not a provider is refused by submitBid with NotProvider;
\* no step is such a call.
C25_OnlyOwnerOnlyProvider ==
    [][/\ \A s \in Addr : s # owner =>
             /\ C25_RefusedAsNotOwner(s)
             /\ \A n \in OwnerInputs : ~transferOwnership(s, n)
             /\ \A p \in Addr : ~addProvider(s, p) /\ ~removeProvider(s, p)
             /\ ~pause(s) /\ ~unpause(s)
             /\ \A c \in CooldownInputs : ~setCooldownSeconds(s, c)
             /\ ~openBatch(s) /\ ~closeBatch(s) /\ ~findHighestBidder(s)
       /\ \A s \in Addr : ~isProvider[s] =>
             \A h \in HandleInputs :
                 submitBidError(s, h) = "NotProvider" /\ ~submitBid(s, h)
      ]_vars

\* the deployer, still a provider with an elapsed cooldown over an open
\* batch, after handing the ownership over: refused as owner, and the new
\* owner refused as provider
C25_Witness ==
    /\ owner # Deployer
    /\ isProvider[Deployer]
    /\ ~isProvider[owner]
    /\ ~paused
    /\ batchOpen
    /\ Len(bids) > 0
    /\ C25_RefusedAsNotOwner(Deployer)
    /\ submitBidError(owner, InputHandle(1)) = "NotProvider"

\* the calls that find nothing to do are accepted and emit nothing
C26_NoOpCalls ==
    /\ paused => pauseError(owner) = "PausedError"
    /\ \A p \in Addr :
          /\ isProvider[p] =>
                (addProviderError(owner) = OK /\ addProviderEmits(p) = <<>>)
          /\ ~isProvider[p] =>
                (removeProviderError(owner) = OK /\ removeProviderEmits(p) = <<>>)

\* C26: pause by the owner of a paused engine fails with PausedError;
\* addProvider of a provider and removeProvider of a non-provider are
\* accepted, change nothing and emit nothing; ProviderAdded is emitted
\* exactly by the calls that turn the flag on and ProviderRemoved exactly by
\* those that turn it off, and the flag changes in no other step, so the two
\* events of one address alternate, starting with the constructor's
\* ProviderAdded for the deployer, the only provider at deployment.
C26_IdempotentRoleChanges ==
    /\ \A a \in Addr :
          isProvider[a] <=> (\E i \in 1..Len(constructorEmits) :
                                constructorEmits[i] = ProviderAdded(a))
    /\ []C26_NoOpCalls
    /\ [][/\ paused => \A s \in Addr : ~pause(s)
          /\ \A s, p \in Addr : addProvider(s, p) =>
                IF isProvider[p]
                THEN UNCHANGED vars /\ addProviderEmits(p) = <<>>
                ELSE /\ isProvider' = [isProvider EXCEPT ![p] = TRUE]
                     /\ addProviderEmits(p) = <<ProviderAdded(p)>>
          /\ \A s, p \in Addr : removeProvider(s, p) =>
                IF ~isProvider[p]
                THEN UNCHANGED vars /\ removeProviderEmits(p) = <<>>
                ELSE /\ isProvider' = [isProvider EXCEPT ![p] = FALSE]
                     /\ removeProviderEmits(p) = <<ProviderRemoved(p)>>
          /\ \A p \in Addr :
                /\ (~isProvider[p] /\ isProvider'[p]) =>
                      \E s \in Addr : addProvider(s, p)
                /\ (isProvider[p] /\ ~isProvider'[p]) =>
                      \E s \in Addr : removeProvider(s, p)
         ]_vars

\* a paused engine whose deployer was removed from the providers and a
\* second provider added: a repeated addProvider emits nothing
C26_Witness ==
    /\ paused
    /\ ~isProvider[Deployer]
    /\ \E p \in Addr \ {Deployer} :
          /\ isProvider[p]
          /\ addProviderError(owner) = OK
          /\ addProviderEmits(p) = <<>>
          /\ removeProviderEmits(Deployer) = <<>>
    /\ pauseError(owner) = "PausedError"

\* C27 (as claimed): when bids.push runs lastSubmissionTime of the caller is
\* already the current time, and when the decryption request is issued to
\* the oracle lastDecryptionRequestTime of the caller is already the current
\* time.
C27_TimeRecordedBeforeAction ==
    [][/\ \A p \in Addr, h \in HandleInputs : submitBid(p, h) =>
             submitBidTimeAtPush(p)[p] = now
       /\ \A s \in Addr : findHighestBidder(s) =>
             findHighestBidderTimeAtRequest(s)[s] = now
      ]_vars

\* C28: submitBid changes lastSubmissionTime of its caller only and
\* findHighestBidder lastDecryptionRequestTime of its caller only; a
\* submission changes no other caller's submission cooldown and nobody's
\* decryption cooldown, a request changes nobody's submission cooldown and
\* no other caller's decryption cooldown.
C28_CooldownsPerCallerAndKind ==
    [][/\ \A p \in Addr, h \in HandleInputs : submitBid(p, h) =>
             /\ lastSubmissionTime' = [lastSubmissionTime EXCEPT ![p] = now]
             /\ lastDecryptionRequestTime' = lastDecryptionRequestTime
             /\ \A q \in Addr \ {p} :
                   checkSubmissionCooldown(q)' = checkSubmissionCooldown(q)
             /\ \A q \in Addr :
                   checkDecryptionCooldown(q)' = checkDecryptionCooldown(q)
       /\ \A s \in Addr : findHighestBidder(s) =>
             /\ lastDecryptionRequestTime' =
                    [lastDecryptionRequestTime EXCEPT ![s] = now]
             /\ lastSubmissionTime' = lastSubmissionTime
             /\ \A q \in Addr \ {s} :
                   checkDecryptionCooldown(q)' = checkDecryptionCooldown(q)
             /\ \A q \in Addr :
                   checkSubmissionCooldown(q)' = checkSubmissionCooldown(q)
       /\ lastSubmissionTime' # lastSubmissionTime =>
             \E p \in Addr, h \in HandleInputs : submitBid(p, h)
       /\ lastDecryptionRequestTime' # lastDecryptionRequestTime =>
             \E s \in Addr : findHighestBidder(s)
      ]_vars

\* the owner has just submitted and is in submission cooldown, while the
\* owner's findHighestBidder and another provider's submitBid are accepted
C28_Witness ==
    /\ isProvider[owner]
    /\ lastSubmissionTime[owner] = now
    /\ submitBidError(owner, InputHandle(1)) = "CooldownActive"
    /\ findHighestBidderError(owner) = OK
    /\ \E q \in Addr \ {owner} :
          /\ isProvider[q]
          /\ lastSubmissionTime[q] = 0
          /\ submitBidError(q, InputHandle(1)) = OK

\* C29: the owner is never the zero address; transferOwnership to the zero
\* address is refused; an accepted transferOwnership(x) makes x the owner,
\* leaves the provider set and everything else as it was, and the previous
\* owner (if other than x) is from then on refused by the owner-only
\* operations; the owner changes in no other step.
C29_SingleNonZeroOwner ==
    /\ []((owner # ZeroAddress) /\ (owner \in Addr))
    /\ [][/\ transferOwnershipError(owner, ZeroAddress) = "New owner is zero address"
          /\ \A s \in Addr : ~transferOwnership(s, ZeroAddress)
          /\ \A s \in Addr, x \in OwnerInputs : transferOwnership(s, x) =>
                /\ s = owner
                /\ owner' = x
                /\ UNCHANGED <<isProvider, paused, cooldownSeconds, timeVars,
                               batchVars, decryptionContexts, oracleVars, settledLog>>
                /\ s # x => C25_RefusedAsNotOwner(s)'
          /\ owner' # owner => \E x \in OwnerInputs : transferOwnership(owner, x)
         ]_vars

\* the ownership handed over by the deployer, who keeps the provider role
\* while the new owner has none
C29_Witness ==
    /\ owner # Deployer
    /\ owner # ZeroAddress
    /\ isProvider[Deployer]
    /\ ~isProvider[owner]
    /\ pauseError(Deployer) = "NotOwner"
    /\ pauseError(owner) # "NotOwner"
    /\ transferOwnershipError(owner, ZeroAddress) = "New owner is zero address"

\* C30 (as claimed): a callback is accepted only for a request of the
\* current batch, and every AuctionSettled names the batch that was current
\* when it was emitted.
C30_SettledInOwnBatch ==
    [][/\ \A r \in RequestIds, c \in Cleartexts, p \in Proofs :
             myCallback(Relayer, r, c, p) =>
                 decryptionContexts[r].batchId = currentBatchId
       /\ Len(settledLog') > Len(settledLog) =>
             settledLog'[Len(settledLog')].batchId = currentBatchId
      ]_vars

\* C31: under a request id no findHighestBidder has stored a context for,
\* the context is the default one and myCallback is refused whoever calls
\* and whatever cleartexts and proof it carries, a signature the oracle
\* would give for that id included; nothing is marked processed and no
\* AuctionSettled bears the id.
C31_UnknownRequestNeverSettles ==
    \A r \in RequestIds \ Issued :
        /\ decryptionContexts[r] = DecryptionContext(0, ZeroHash, FALSE)
        /\ EventsOf(r) = {}
        /\ \A c \in Cleartexts, p \in Proofs \cup {KMSSignature(r)} :
              /\ myCallbackError(r, c, p) \in {"NoBidsInBatch", "StateMismatch"}
              /\ \A caller \in Addr \cup {Relayer} : ~ENABLED myCallback(caller, r, c, p)

\* one request issued and pending over a ledger of two bids; the callback
\* of the next, unknown id is refused with the issued request's cleartext
\* and proof
C31_Witness ==
    /\ counterRequest = 1
    /\ Len(bids) = 2
    /\ Settleable(0)
    /\ \E r \in RequestIds \ Issued :
          myCallbackError(r, TrueCleartext(0), KMSSignature(0)) = "StateMismatch"

\* the recomputed fingerprint differs from the stored one
C32_FingerprintDiffers(r) ==
    /\ Len(bids) > 0
    /\ _hashCiphertexts(buildCts(bids)) # decryptionContexts[r].stateHash

\* C32: the checks of myCallback run in the order ReplayAttempt,
\* NoBidsInBatch, StateMismatch, InvalidProof: a processed request gets
\* ReplayAttempt also over an empty or changed ledger and with any proof, an
\* unprocessed one over an empty ledger gets NoBidsInBatch, one with a
\* differing fingerprint gets StateMismatch also with an invalid proof, and
\* InvalidProof is left for a matching fingerprint.
C32_CallbackCheckOrder ==
    \A r \in RequestIds, c \in Cleartexts, p \in Proofs :
        /\ decryptionContexts[r].processed
              => myCallbackError(r, c, p) = "ReplayAttempt"
        /\ (~decryptionContexts[r].processed /\ Len(bids) = 0)
              => myCallbackError(r, c, p) = "NoBidsInBatch"
        /\ (~decryptionContexts[r].processed /\ C32_FingerprintDiffers(r))
              => myCallbackError(r, c, p) = "StateMismatch"
        /\ myCallbackError(r, c, p) = "InvalidProof"
              => (/\ ~decryptionContexts[r].processed
                  /\ Len(bids) > 0
                  /\ ~C32_FingerprintDiffers(r)
                  /\ ~checkSignatures(r, c, p))

\* a settled request and a pending one whose ledger got a further bid: a
\* forged proof for the one is answered ReplayAttempt, for the other
\* StateMismatch
C32_Witness ==
    /\ counterRequest = 2
    /\ \E r, q \in Issued :
          /\ decryptionContexts[r].processed
          /\ C32_FingerprintDiffers(r)
          /\ myCallbackError(r, 0, Forged) = "ReplayAttempt"
          /\ ~decryptionContexts[q].processed
          /\ C32_FingerprintDiffers(q)
          /\ myCallbackError(q, 0, Forged) = "StateMismatch"

C34_CooldownSumNeverOverflows ==
    \A s \in Addr :
        /\ lastSubmissionTime[s] + cooldownSeconds <= MaxUint256
        /\ lastDecryptionRequestTime[s] + cooldownSeconds <= MaxUint256
        /\ checkSubmissionCooldown(s) # "Panic"
        /\ checkDecryptionCooldown(s) # "Panic"
        /\ lastSubmissionTime[s] = 0 => checkSubmissionCooldown(s) # "CooldownActive"
        /\ lastDecryptionRequestTime[s] = 0 => checkDecryptionCooldown(s) # "CooldownActive"
====
